---- MODULE Spec2Model ----
(***************************************************************************)
(* The currency-converter CLI (src/src/index.ts) and its task-lifecycle    *)
(* client (src/src/api.ts): load the API module, validate the options,     *)
(* POST the task, poll its status, fetch the output metadata, download the *)
(* stdout artifact and extract the two numbers.                            *)
(*                                                                         *)
(* Every `await` of the code is a point where the process is suspended, so *)
(* each action below is the code that runs between two suspension points:  *)
(* the handling of one response (or of the timer) up to and including the  *)
(* issue of the next request.  The remote service is the environment: what *)
(* it answers is chosen with \E when the answer arrives.                   *)
(***************************************************************************)
EXTENDS Integers, Sequences, FiniteSets, TLC

\* ------------------------------------------------------------- bounds
\* At most this many status queries are issued in one behaviour.
MaxPolls == 3
\* A downloaded text is the concatenation of at most this many chunks.
MaxChunks == 3

\* ------------------------------------------------------------- values
\* The JavaScript value undefined (a missing field, an unset variable).
Undefined == "<undefined>"
\* A local variable whose declaration has not been reached yet.
Unset == "<unset>"

\* JavaScript numbers as far as the comparisons of validateInput see them.
NaN == [nan |-> TRUE, v |-> 0]
Num(k) == [nan |-> FALSE, v |-> k]

\* a >= b and a <= b on JavaScript numbers: false when either is NaN.
JsGe(a, b) == ~a.nan /\ ~b.nan /\ a.v >= b.v
JsLe(a, b) == ~a.nan /\ ~b.nan /\ a.v <= b.v

\* `!x` for the values a response field can hold here.
Falsy_emptyIsUrl(x) == x = Undefined
Falsy(x) == x = Undefined \/ x = ""

\* `${x}` inside a template string.
Template(x) == IF x = Undefined THEN "undefined" ELSE x

\* String.prototype.toUpperCase on the currency codes of the model.
ToUpperCase(s) ==
    CASE s = "usd" -> "USD"
      [] s = "eur" -> "EUR"
      [] OTHER -> s

\* ------------------------------------------------------------- inputs
SourceCodes == {"usd", "eur"}
TargetCodes == {"USD"}
RateMins == {NaN, Num(0), Num(1), Num(2)}
RateMaxs == {Num(-2), Num(2)}
Amounts == {Num(-1), Num(0), Num(1)}
ApiKeys == {Undefined, "", "key"}
TaskIDs == {"12345", Undefined}
Statuses == {"InProgress", "Completed", "Cancelled", "Stopped", Undefined}
StdoutUrls == {Undefined, "", "https://example.com/stdout"}

\* The statuses after which the remote task changes no more, and the value
\* of the remote task before there is one.
TerminalStatuses == {"Completed", "Cancelled", "Stopped"}
NoTask == "<no task>"

\* ------------------------------------------------------------- text
\* A text is a sequence of characters.  Three literal substrings of the
\* code's regular expressions are single characters of the model:
\*   "R"  = "Uncertain conversion rate: "
\*   "A"  = "Converted Amount: "
\*   "Ux" = "Ux"
\* and "NL" is the line feed.
Digits == {"0", "1", "2", "3", "4", "5", "6", "7", "8", "9"}
DigitValue ==
    ("0" :> 0) @@ ("1" :> 1) @@ ("2" :> 2) @@ ("3" :> 3) @@ ("4" :> 4) @@
    ("5" :> 5) @@ ("6" :> 6) @@ ("7" :> 7) @@ ("8" :> 8) @@ ("9" :> 9)

Chunks ==
    { <<"R", "1", ".", "5">>,
      <<"R", "3", ".", "0">>,
      <<"NL", "A", "2", ".", "5", "0">>,
      <<"R">>,
      <<"7">>,
      <<"Ux">> }

RECURSIVE Flatten(_)
Flatten(ss) == IF ss = <<>> THEN <<>> ELSE Head(ss) \o Flatten(Tail(ss))

ChunkSeqs == UNION {[1..n -> Chunks] : n \in 0..MaxChunks}
Texts == {Flatten(cs) : cs \in ChunkSeqs}

SetMin(S) == CHOOSE x \in S : \A y \in S : x <= y
SetMax(S) == CHOOSE x \in S : \A y \in S : x >= y

\* stdout.replace(/Ux.*/, ''): the first "Ux" and what follows it on its
\* line are removed; `.` does not match a line feed.
StripUx_none(s) == s
StripUx(s) ==
    LET us == {i \in 1..Len(s) : s[i] = "Ux"}
    IN  IF us = {} THEN s
        ELSE LET i == SetMin(us)
                 nls == {j \in i..Len(s) : s[j] = "NL"}
                 j == IF nls = {} THEN Len(s) + 1 ELSE SetMin(nls)
             IN  SubSeq(s, 1, i - 1) \o SubSeq(s, j, Len(s))

\* The end of the greedy \d+ that starts at i: the first index from i on
\* that holds no digit (Len(s) + 1 when the digits run to the end).
DigitsEnd(s, i) ==
    SetMin({k \in i..(Len(s) + 1) : k = Len(s) + 1 \/ s[k] \notin Digits})

\* <label>(\d+\.\d+) matches at i.
MatchesAt(s, label, i) ==
    /\ s[i] = label
    /\ LET k == DigitsEnd(s, i + 1)
       IN  /\ k > i + 1
           /\ k <= Len(s)
           /\ s[k] = "."
           /\ DigitsEnd(s, k + 1) > k + 1

\* The null of a failed String.prototype.match.
Null == <<>>

\* s.match(/<label>(\d+\.\d+)/): group 1 of the leftmost match, or null.
Match_lastMatch(s, label) ==
    LET at == {i \in 1..Len(s) : MatchesAt(s, label, i)}
    IN  IF at = {} THEN Null
        ELSE LET i == SetMax(at)
                 k == DigitsEnd(s, i + 1)
             IN  SubSeq(s, i + 1, DigitsEnd(s, k + 1) - 1)
Match(s, label) ==
    LET at == {i \in 1..Len(s) : MatchesAt(s, label, i)}
    IN  IF at = {} THEN Null
        ELSE LET i == SetMin(at)
                 k == DigitsEnd(s, i + 1)
             IN  SubSeq(s, i + 1, DigitsEnd(s, k + 1) - 1)

RECURSIVE DecimalValue(_)
DecimalValue(ds) ==
    IF ds = <<>> THEN 0
    ELSE 10 * DecimalValue(SubSeq(ds, 1, Len(ds) - 1)) + DigitValue[ds[Len(ds)]]

RECURSIVE StripTrailingZeros(_)
StripTrailingZeros(ds) ==
    IF ds # <<>> /\ ds[Len(ds)] = "0"
    THEN StripTrailingZeros(SubSeq(ds, 1, Len(ds) - 1))
    ELSE ds

\* A parsed number: n / 10^d with no trailing zero among the d decimals,
\* or NaN.
FloatNaN == [nan |-> TRUE, n |-> 0, d |-> 0]

\* parseFloat of a string of the form digits "." digits; NaN when there is
\* no string to parse.
parseFloat(t) ==
    IF t = Null THEN FloatNaN
    ELSE LET dot == SetMin({k \in 1..Len(t) : t[k] = "."})
             frac == StripTrailingZeros(SubSeq(t, dot + 1, Len(t)))
         IN  [nan |-> FALSE,
              n |-> DecimalValue(SubSeq(t, 1, dot - 1) \o frac),
              d |-> Len(frac)]

\* The test of api.ts line 151.
ExtractFails_rateOnly(rateMatch, amountMatch) == rateMatch = Null
ExtractFails_both(rateMatch, amountMatch) == rateMatch = Null /\ amountMatch = Null
ExtractFails(rateMatch, amountMatch) == rateMatch = Null \/ amountMatch = Null

NoOutput == [kind |-> "none"]
\* extractOutput: the record returned, or NoOutput when it exits.
extractOutput(stdout) ==
    LET cleanOutput == StripUx(stdout)
        conversionRateMatch == Match(cleanOutput, "R")
        convertedAmountMatch == Match(cleanOutput, "A")
    IN  IF ExtractFails(conversionRateMatch, convertedAmountMatch)
        THEN NoOutput
        ELSE [kind |-> "record",
              rate |-> parseFloat(conversionRateMatch),
              convertedAmount |-> parseFloat(convertedAmountMatch)]

\* ------------------------------------------------------------- validateInput
ValidInput == ""
\* The message validateInput logs before it exits, or ValidInput when it
\* returns.
validateInput(sourceCurrency, targetCurrency, rateMin, rateMax, amount) ==
    IF sourceCurrency = targetCurrency
    THEN "Error: Source and target currencies cannot be the same."
    ELSE IF JsGe(rateMin, rateMax)
    THEN "Error: Minimum rate must be less than maximum rate."
    ELSE IF JsLe(amount, Num(0))
    THEN "Error: Amount must be a positive number."
    ELSE IF JsLe(rateMin, Num(0)) \/ JsLe(rateMax, Num(0))
    THEN "Error: Rates must be positive numbers."
    ELSE ValidInput

\* ------------------------------------------------------------- state
VARIABLES
    remote,    \* the status of the task at the remote service
    pc,        \* where the process is suspended (or "exited" / "done")
    apiKey,    \* process.env.SIGNALOID_API_KEY
    options,   \* program.opts(): source, target, amount, rateMin, rateMax
    taskId,    \* executeTask's taskId
    status,    \* waitForTaskCompletion's status
    output,    \* main's output
    exitCode,  \* <<>> while the process runs, <<c>> once it ended with c
    inflight,  \* the requests sent and not yet answered
    returned,  \* the functions that have returned normally
    events     \* what the process did, in order

vars == <<pc, apiKey, options, taskId, status, output, exitCode, inflight,
          returned, events, remote>>

\* The values the state holds.
TypeOK ==
    /\ pc \in {"load", "main", "awaitPost", "awaitStatus", "sleep", "awaitOutputs",
               "awaitDownload", "done", "exited",
               "exec", "execSubmit", "execWait", "execGet", "execResolved", "execRejected"}
    /\ apiKey \in ApiKeys
    /\ taskId \in TaskIDs \cup {Unset}
    /\ status \in Statuses \cup {Unset}
    /\ output.kind \in {"none", "record"}
    /\ exitCode \in {<<>>, <<0>>, <<1>>}
    /\ inflight \subseteq {"POST /tasks", "GET /tasks/{id}", "GET /tasks/{id}/outputs",
                           "GET {Stdout}"}
    /\ returned \subseteq {"validateInput", "submitTask", "waitForTaskCompletion",
                           "getTaskOutput", "executeTask"}
    /\ pc = "exited" <=> exitCode = <<1>>
    /\ remote \in Statuses \cup {NoTask}

Req(what, arg) == [e |-> "req", what |-> what, arg |-> arg]
Resp(what, arg) == [e |-> "resp", what |-> what, arg |-> arg]
Log(stream, msg) == [e |-> "log", what |-> stream, arg |-> msg]
Wait_backoff(ms) ==
    [e |-> "wait", what |-> "setTimeout",
     arg |-> ms * (1 + Cardinality({i \in 1..Len(events) : events[i].e = "wait"}))]
Wait(ms) == [e |-> "wait", what |-> "setTimeout", arg |-> ms]
ExitEvent(code) == [e |-> "exit", what |-> "process.exit", arg |-> code]

POST == "POST /tasks"
STATUS == "GET /tasks/{id}"
OUTPUTS == "GET /tasks/{id}/outputs"
DOWNLOAD == "GET {Stdout}"

\* The delay of api.ts line 118.
PollIntervalMs == 2000

\* axios rejects (the catch clause runs) when the answer is not a 2xx one.
Failure == [ok |-> FALSE, data |-> Undefined]
Success(data) == [ok |-> TRUE, data |-> data]

Init ==
    /\ pc = "load"
    /\ apiKey \in ApiKeys
    /\ options \in [source : SourceCodes, target : TargetCodes,
                    rateMin : RateMins, rateMax : RateMaxs, amount : Amounts]
    /\ taskId = Unset
    /\ status = Unset
    /\ output = NoOutput
    /\ exitCode = <<>>
    /\ inflight = {}
    /\ returned = {}
    /\ events = <<>>
    /\ remote = NoTask

\* console.error(message) followed by process.exit(1), after the events evs.
ExitWith(evs, message) ==
    /\ events' = evs \o <<Log("stderr", message), ExitEvent(1)>>
    /\ pc' = "exited"
    /\ exitCode' = <<1>>
    /\ inflight' = {}

\* `!API_KEY` of api.ts line 8.
ApiKeyMissing_undefinedOnly(key) == key = Undefined
ApiKeyMissing(key) == Falsy(key)

\* The module body of api.ts: the API key check.
LoadApi ==
    /\ pc = "load"
    /\ IF ApiKeyMissing(apiKey)
       THEN /\ ExitWith(events, "Error: SIGNALOID_API_KEY environment variable not set.")
            /\ UNCHANGED <<apiKey, options, remote, taskId, status, output, returned>>
       ELSE /\ pc' = "main"
            /\ UNCHANGED <<apiKey, options, remote, taskId, status, output, exitCode,
                           inflight, returned, events>>

\* main up to its first suspension: validateInput, then executeTask ->
\* submitTask -> postTask, which sends the POST.
Main ==
    /\ pc = "main"
    /\ LET sourceCurrency == ToUpperCase(options.source)
           targetCurrency == ToUpperCase(options.target)
           verdict == validateInput(sourceCurrency, targetCurrency,
                                    options.rateMin, options.rateMax, options.amount)
           args == <<options.rateMin, options.rateMax, options.amount>>
       IN  IF verdict # ValidInput
           THEN /\ ExitWith(events, verdict)
                /\ UNCHANGED <<apiKey, options, remote, taskId, status, output, returned>>
           ELSE /\ events' = events \o <<Req(POST, args)>>
                /\ inflight' = inflight \cup {POST}
                /\ returned' = returned \cup {"validateInput"}
                /\ pc' = "awaitPost"
                /\ UNCHANGED <<apiKey, options, remote, taskId, status, output, exitCode>>

\* postTask's `return response.data.TaskID`.
PostTaskResult_wrongField(data) == Undefined
PostTaskResult(data) == data

\* Whether the catch clause of postTask runs.
PostThrows_never(resp) == FALSE
PostThrows_orNoTaskID(resp) == ~resp.ok \/ resp.data = Undefined
PostThrows(resp) == ~resp.ok

\* The answer to the POST: postTask returns or fails, submitTask logs and
\* returns, executeTask calls waitForTaskCompletion, whose first
\* fetchTaskStatus sends the first status query.
PostResponse_noAwait ==
    /\ pc = "awaitPost"
    /\ \E resp \in {Success(id) : id \in TaskIDs} :
          LET evs == events \o <<Resp(POST, resp)>>
              id == PostTaskResult(resp.data)
          IN  /\ taskId' = id
              /\ events' = evs \o <<Log("stdout", "Task submitted. Task ID"),
                                    Req(STATUS, Template(id)),
                                    Req(OUTPUTS, Template(id))>>
              /\ inflight' = {STATUS, OUTPUTS}
              /\ returned' = returned \cup {"submitTask"}
              /\ pc' = "awaitStatus"
              /\ remote' = "InProgress"
              /\ UNCHANGED <<apiKey, options, status, output, exitCode>>
PostResponse_retry ==
    /\ pc = "awaitPost"
    /\ \E resp \in {Failure} \cup {Success(id) : id \in TaskIDs} :
          LET evs == events \o <<Resp(POST, resp)>>
          IN  IF PostThrows(resp)
              THEN /\ events' = evs \o <<Req(POST, events[Len(events)].arg)>>
                   /\ UNCHANGED <<pc, apiKey, options, remote, taskId, status, output,
                                  exitCode, inflight, returned>>
              ELSE LET id == PostTaskResult(resp.data)
                   IN  /\ taskId' = id
                       /\ events' = evs \o <<Log("stdout", "Task submitted. Task ID"),
                                             Req(STATUS, Template(id))>>
                       /\ inflight' = (inflight \ {POST}) \cup {STATUS}
                       /\ returned' = returned \cup {"submitTask"}
                       /\ pc' = "awaitStatus"
                       /\ remote' = "InProgress"
                       /\ UNCHANGED <<apiKey, options, status, output, exitCode>>
PostResponse ==
    /\ pc = "awaitPost"
    /\ \E resp \in {Failure} \cup {Success(id) : id \in TaskIDs} :
          LET evs == events \o <<Resp(POST, resp)>>
          IN  IF PostThrows(resp)
              THEN /\ ExitWith(evs, "Error submitting task")
                   /\ UNCHANGED <<apiKey, options, remote, taskId, status, output, returned>>
              ELSE LET id == PostTaskResult(resp.data)
                   IN  /\ taskId' = id
                       /\ events' = evs \o <<Log("stdout", "Task submitted. Task ID"),
                                             Req(STATUS, Template(id))>>
                       /\ inflight' = (inflight \ {POST}) \cup {STATUS}
                       /\ returned' = returned \cup {"submitTask"}
                       /\ pc' = "awaitStatus"
                       /\ remote' = "InProgress"
                       /\ UNCHANGED <<apiKey, options, status, output, exitCode>>

\* Whether the catch clause of fetchTaskStatus runs.
StatusThrows_never(resp) == FALSE
StatusThrows(resp) == ~resp.ok

\* ['Cancelled', 'Stopped'].includes(status)
IsAbandoned_cancelledOnly(s) == s = "Cancelled"
IsAbandoned_stoppedOnly(s) == s = "Stopped"
IsAbandoned(s) == s \in {"Cancelled", "Stopped"}

\* status === 'Completed'
IsCompleted_typo(s) == s = "Complete"
IsCompleted_orMissing(s) == s = "Completed" \/ s = Undefined
IsCompleted(s) == s = "Completed"

\* The answer to a status query: one turn of waitForTaskCompletion's loop.
\* On Completed the poller returns and executeTask calls getTaskOutput,
\* which sends the output-metadata request.
StatusResponse ==
    /\ pc = "awaitStatus"
    /\ \E resp \in {Failure, Success(remote)} :
          LET evs == events \o <<Resp(STATUS, resp)>>
          IN  IF StatusThrows(resp)
              THEN /\ ExitWith(evs, "Error checking task status")
                   /\ UNCHANGED <<apiKey, options, remote, taskId, status, output, returned>>
              ELSE IF IsAbandoned(resp.data)
              THEN /\ status' = resp.data
                   /\ ExitWith(evs, "Task is")
                   /\ UNCHANGED <<apiKey, options, remote, taskId, output, returned>>
              ELSE IF IsCompleted(resp.data)
              THEN /\ status' = resp.data
                   /\ events' = evs \o <<Log("stdout", "Task status"),
                                         Req(OUTPUTS, Template(taskId))>>
                   /\ inflight' = (inflight \ {STATUS}) \cup {OUTPUTS}
                   /\ returned' = returned \cup {"waitForTaskCompletion"}
                   /\ pc' = "awaitOutputs"
                   /\ UNCHANGED <<apiKey, options, remote, taskId, output, exitCode>>
              ELSE /\ status' = resp.data
                   /\ events' = evs \o <<Log("stdout", "Task status"),
                                         Wait(PollIntervalMs)>>
                   /\ inflight' = inflight \ {STATUS}
                   /\ pc' = "sleep"
                   /\ UNCHANGED <<apiKey, options, remote, taskId, output, exitCode, returned>>

StatusQueries == Len(SelectSeq(events, LAMBDA ev : ev.e = "req" /\ ev.what = STATUS))

\* The timer of line 118 fires: the loop's next fetchTaskStatus.
TimerFires_noResolve ==
    /\ pc = "sleep"
    /\ UNCHANGED vars
TimerFires ==
    /\ pc = "sleep"
    /\ StatusQueries < MaxPolls
    /\ events' = events \o <<Req(STATUS, Template(taskId))>>
    /\ inflight' = inflight \cup {STATUS}
    /\ pc' = "awaitStatus"
    /\ UNCHANGED <<apiKey, options, remote, taskId, status, output, exitCode, returned>>

\* Whether the catch clause of getTaskOutput runs on the metadata answer.
OutputsThrows(resp) == ~resp.ok

\* The answer to the output-metadata request: getTaskOutput up to the
\* download request of fetchOutputStream.
OutputsResponse ==
    /\ pc = "awaitOutputs"
    /\ \E resp \in {Failure} \cup {Success(u) : u \in StdoutUrls} :
          LET evs == events \o <<Resp(OUTPUTS, resp)>>
          IN  IF OutputsThrows(resp)
              THEN /\ ExitWith(evs, "Error getting task output")
                   /\ UNCHANGED <<apiKey, options, remote, taskId, status, output, returned>>
              ELSE IF Falsy(resp.data)
              THEN /\ ExitWith(evs, "No output found for the task.")
                   /\ UNCHANGED <<apiKey, options, remote, taskId, status, output, returned>>
              ELSE /\ events' = evs \o <<Req(DOWNLOAD, resp.data)>>
                   /\ inflight' = (inflight \ {OUTPUTS}) \cup {DOWNLOAD}
                   /\ pc' = "awaitDownload"
                   /\ UNCHANGED <<apiKey, options, remote, taskId, status, output, exitCode,
                                  returned>>

\* Whether the catch clause of fetchOutputStream runs.
DownloadThrows(resp) == ~resp.ok

\* The answer to the download: fetchOutputStream returns or fails,
\* extractOutput parses, getTaskOutput and executeTask return, main prints
\* its two lines and the process ends.
DownloadResponse ==
    /\ pc = "awaitDownload"
    /\ \E resp \in {Failure} \cup {Success(t) : t \in Texts} :
          LET evs == events \o <<Resp(DOWNLOAD, resp)>>
          IN  IF DownloadThrows(resp)
              THEN /\ ExitWith(evs, "Error fetching output stream")
                   /\ UNCHANGED <<apiKey, options, remote, taskId, status, output, returned>>
              ELSE LET result == extractOutput(resp.data)
                   IN  IF result = NoOutput
                       THEN /\ ExitWith(evs, "Failed to extract conversion rate or converted amount")
                            /\ UNCHANGED <<apiKey, options, remote, taskId, status, output,
                                           returned>>
                       ELSE /\ output' = result
                            /\ events' = evs \o <<Log("stdout", "Converted"),
                                                  Log("stdout", "Conversion Rate")>>
                            /\ inflight' = inflight \ {DOWNLOAD}
                            /\ returned' = returned \cup {"getTaskOutput", "executeTask"}
                            /\ pc' = "done"
                            /\ exitCode' = <<0>>
                            /\ UNCHANGED <<apiKey, options, remote, taskId, status>>

\* The task at the remote service moves on while the client is watching
\* it: from a status that is not terminal to any other status; a terminal
\* status is final.
RemoteStep ==
    /\ pc \in {"awaitStatus", "sleep"}
    /\ remote \notin TerminalStatuses
    /\ remote' \in Statuses \ {remote}
    /\ UNCHANGED <<pc, apiKey, options, taskId, status, output, exitCode, inflight,
                   returned, events>>

Next ==
    \/ LoadApi
    \/ Main
    \/ PostResponse
    \/ StatusResponse
    \/ TimerFires
    \/ OutputsResponse
    \/ DownloadResponse
    \/ RemoteStep

Spec == Init /\ [][Next]_vars

\* The polling loop under fairness: a pending timer fires and a pending
\* status query is answered (by its result or by an error).
SpecFair == Spec /\ WF_vars(TimerFires) /\ WF_vars(StatusResponse)

\* ------------------------------------------------------------- executeTask alone
\* executeTask of index.ts with its three stages replaced by stubs, as in
\* the tests of executeTask (jest.mock('../src/api')): a stub resolves with
\* a value or rejects with an error.
ExecErrors == {"API Error", "Network Error"}
StubOutputs ==
    {[kind |-> "record", rate |-> [nan |-> FALSE, n |-> 117, d |-> 2],
      convertedAmount |-> [nan |-> FALSE, n |-> 85, d |-> 0]],
     [kind |-> "record", rate |-> [nan |-> FALSE, n |-> 15, d |-> 1],
      convertedAmount |-> [nan |-> FALSE, n |-> 25, d |-> 1]]}
Resolved(value) == [ok |-> TRUE, data |-> value]
Rejected(error) == [ok |-> FALSE, data |-> error]

\* `await p` throws when p is rejected.
AwaitThrows_never(outcome) == FALSE
AwaitThrows(outcome) == ~outcome.ok

InitExec ==
    /\ pc = "exec"
    /\ apiKey = "key"
    /\ options \in [source : SourceCodes, target : TargetCodes,
                    rateMin : RateMins, rateMax : RateMaxs, amount : Amounts]
    /\ taskId = Unset
    /\ status = Unset
    /\ output = NoOutput
    /\ exitCode = <<>>
    /\ inflight = {}
    /\ returned = {}
    /\ events = <<>>
    /\ remote = NoTask

\* executeTask is called and calls submitTask(applicationCode, args).
ExecStart ==
    /\ pc = "exec"
    /\ events' = events \o <<Req("submitTask",
                                 <<options.rateMin, options.rateMax, options.amount>>)>>
    /\ pc' = "execSubmit"
    /\ UNCHANGED <<apiKey, options, remote, taskId, status, output, exitCode, inflight,
                   returned>>

\* The async function ends by throwing error: its promise is rejected with it.
ExecRejects(evs, error) ==
    /\ events' = evs \o <<Resp("executeTask", Rejected(error))>>
    /\ pc' = "execRejected"

\* Line 78: `const taskId = await submitTask(...)`, then line 79 calls
\* waitForTaskCompletion(taskId).
ExecSubmitSettled ==
    /\ pc = "execSubmit"
    /\ \E outcome \in {Resolved(id) : id \in TaskIDs} \cup {Rejected(e) : e \in ExecErrors} :
          LET evs == events \o <<Resp("submitTask", outcome)>>
          IN  IF AwaitThrows(outcome)
              THEN /\ ExecRejects(evs, outcome.data)
                   /\ UNCHANGED <<apiKey, options, remote, taskId, status, output,
                                  exitCode, inflight, returned>>
              ELSE /\ taskId' = outcome.data
                   /\ events' = evs \o <<Req("waitForTaskCompletion", outcome.data)>>
                   /\ pc' = "execWait"
                   /\ UNCHANGED <<apiKey, options, remote, status, output, exitCode,
                                  inflight, returned>>

\* Line 79: `await waitForTaskCompletion(taskId)`, then line 80 calls
\* getTaskOutput(taskId).
ExecWaitSettled ==
    /\ pc = "execWait"
    /\ \E outcome \in {Resolved(Undefined)} \cup {Rejected(e) : e \in ExecErrors} :
          LET evs == events \o <<Resp("waitForTaskCompletion", outcome)>>
          IN  IF AwaitThrows(outcome)
              THEN /\ ExecRejects(evs, outcome.data)
                   /\ UNCHANGED <<apiKey, options, remote, taskId, status, output,
                                  exitCode, inflight, returned>>
              ELSE /\ events' = evs \o <<Req("getTaskOutput", taskId)>>
                   /\ pc' = "execGet"
                   /\ UNCHANGED <<apiKey, options, remote, taskId, status, output,
                                  exitCode, inflight, returned>>

\* Line 80: `return await getTaskOutput(taskId)`.
ExecGetSettled ==
    /\ pc = "execGet"
    /\ \E outcome \in {Resolved(o) : o \in StubOutputs} \cup {Rejected(e) : e \in ExecErrors} :
          LET evs == events \o <<Resp("getTaskOutput", outcome)>>
          IN  IF AwaitThrows(outcome)
              THEN /\ ExecRejects(evs, outcome.data)
                   /\ UNCHANGED <<apiKey, options, remote, taskId, status, output,
                                  exitCode, inflight, returned>>
              ELSE /\ output' = outcome.data
                   /\ events' = evs \o <<Resp("executeTask", Resolved(outcome.data))>>
                   /\ returned' = returned \cup {"executeTask"}
                   /\ pc' = "execResolved"
                   /\ UNCHANGED <<apiKey, options, remote, taskId, status, exitCode,
                                  inflight>>

NextExec ==
    \/ ExecStart
    \/ ExecSubmitSettled
    \/ ExecWaitSettled
    \/ ExecGetSettled

SpecExec == InitExec /\ [][NextExec]_vars

\* ------------------------------------------------------------- reading the events
EventIdx == 1..Len(events)
IsReq(i, what) == events[i].e = "req" /\ events[i].what = what
IsResp(i, what) == events[i].e = "resp" /\ events[i].what = what
IsLog(i, stream, msg) ==
    i \in EventIdx /\ events[i].e = "log" /\ events[i].what = stream /\ events[i].arg = msg
IsExit(i, code) == i \in EventIdx /\ events[i].e = "exit" /\ events[i].arg = code
Requests(what) == {i \in EventIdx : IsReq(i, what)}
Responses(what) == {i \in EventIdx : IsResp(i, what)}

\* The process was ended by process.exit(1) right after the event i, with
\* the message msg logged to the error stream first, and did nothing more.
FatalAfter(i, msg) ==
    /\ pc = "exited"
    /\ exitCode = <<1>>
    /\ Len(events) = i + 2
    /\ IsLog(i + 1, "stderr", msg)
    /\ IsExit(i + 2, 1)

\* The statuses the successive status queries have returned so far.
StatusReplies == SelectSeq(events, LAMBDA ev : ev.e = "resp" /\ ev.what = STATUS)

\* ------------------------------------------------------------- C1
\* C1: when the statuses returned by the successive successful status
\* queries end with Completed, the poller has returned normally (the
\* process goes on to the output request, with no exit in between) after
\* exactly as many queries as statuses returned, each query answered before
\* the next one is sent.
C1_ReturnsOnCompleted ==
    LET replies == StatusReplies
        n == Len(replies)
    IN  (/\ n > 0
         /\ \A k \in 1..n : replies[k].arg.ok
         /\ replies[n].arg.data = "Completed")
        => /\ "waitForTaskCompletion" \in returned
           /\ StatusQueries = n
           /\ \A k \in 1..(n - 1) : replies[k].arg.data # "Completed"
           /\ LET r == SetMax(Responses(STATUS))
              IN  /\ IsLog(r + 1, "stdout", "Task status")
                  /\ r + 2 \in Requests(OUTPUTS)
                  /\ \A i \in 1..(r + 2) : events[i].e # "exit"
           /\ \A q \in Requests(STATUS) : q + 1 \in Responses(STATUS)

C1_Witness ==
    /\ Len(StatusReplies) = 3
    /\ StatusReplies[1].arg.data = "InProgress"
    /\ StatusReplies[3].arg.data = "Completed"
    /\ "waitForTaskCompletion" \in returned

\* ------------------------------------------------------------- C2
\* C2: once a status query has returned Cancelled or Stopped, the process
\* has exited with status 1 right after an error log, the poller has not
\* returned, and no output-metadata request and no download was sent.
C2_AbandonedIsFatal ==
    \A i \in Responses(STATUS) :
        (events[i].arg.ok /\ events[i].arg.data \in {"Cancelled", "Stopped"})
        => /\ FatalAfter(i, "Task is")
           /\ "waitForTaskCompletion" \notin returned
           /\ Requests(OUTPUTS) = {}
           /\ Requests(DOWNLOAD) = {}

C2_Witness ==
    /\ Len(StatusReplies) = 2
    /\ StatusReplies[2].arg.ok
    /\ StatusReplies[2].arg.data = "Stopped"
    /\ pc = "exited"

\* ------------------------------------------------------------- C3
\* C3: when the POST is answered with a success carrying a TaskID,
\* submitTask has returned exactly that TaskID and every status query and
\* output request sent carries that same identifier.
C3_TaskIdUnmodified ==
    \A i \in Responses(POST) :
        (events[i].arg.ok /\ events[i].arg.data # Undefined)
        => /\ "submitTask" \in returned
           /\ taskId = events[i].arg.data
           /\ \A j \in Requests(STATUS) \cup Requests(OUTPUTS) :
                  events[j].arg = events[i].arg.data

C3_Witness ==
    /\ \E i \in Responses(POST) : events[i].arg.ok /\ events[i].arg.data = "12345"
    /\ Cardinality(Requests(STATUS)) = 2
    /\ Requests(OUTPUTS) # {}

\* ------------------------------------------------------------- C4
\* C4: when the POST fails, the process has exited with status 1 right
\* after logging; the POST was sent once, no task ID was returned and no
\* status query, output request or download was sent.
C4_FailedSubmitIsFatal ==
    \A i \in Responses(POST) :
        ~events[i].arg.ok
        => /\ FatalAfter(i, "Error submitting task")
           /\ Cardinality(Requests(POST)) = 1
           /\ taskId = Unset
           /\ "submitTask" \notin returned
           /\ Requests(STATUS) \cup Requests(OUTPUTS) \cup Requests(DOWNLOAD) = {}

C4_Witness ==
    /\ \E i \in Responses(POST) : ~events[i].arg.ok
    /\ pc = "exited"

\* ------------------------------------------------------------- C5
\* C5: when a status query fails, at whatever turn of the loop, the
\* process has exited with status 1 right after logging: no status query
\* was sent after the failed one and output extraction was not reached.
C5_FailedQueryIsFatal ==
    \A i \in Responses(STATUS) :
        ~events[i].arg.ok
        => /\ FatalAfter(i, "Error checking task status")
           /\ \A q \in Requests(STATUS) : q < i
           /\ "waitForTaskCompletion" \notin returned
           /\ Requests(OUTPUTS) \cup Requests(DOWNLOAD) = {}

C5_Witness ==
    /\ Len(StatusReplies) = 3
    /\ ~StatusReplies[3].arg.ok
    /\ pc = "exited"

\* ------------------------------------------------------------- C6
\* t has the form digits "." digits.
IsNumberText(t) ==
    \E k \in 2..(Len(t) - 1) :
        /\ t[k] = "."
        /\ \A j \in (1..Len(t)) \ {k} : t[j] \in Digits

\* The text of t from i + 1 to j is a number that follows the label at i.
OccursAt(t, label, i, j) ==
    /\ i \in 1..Len(t)
    /\ t[i] = label
    /\ j \in (i + 1)..Len(t)
    /\ IsNumberText(SubSeq(t, i + 1, j))

\* t contains '<label><number>'.
Contains(t, label) == \E i \in 1..Len(t) : \E j \in 1..Len(t) : OccursAt(t, label, i, j)

\* The whole number that follows the first '<label><number>' of t.
NumberAfterFirst(t, label) ==
    LET i == SetMin({a \in 1..Len(t) : \E b \in 1..Len(t) : OccursAt(t, label, a, b)})
        j == SetMax({b \in 1..Len(t) : OccursAt(t, label, i, b)})
    IN  SubSeq(t, i + 1, j)

\* The character at k is the first "Ux" of t or lies between it and the
\* end of its line.
Dropped(t, k) ==
    \E u \in 1..k :
        /\ t[u] = "Ux"
        /\ \A v \in 1..(u - 1) : t[v] # "Ux"
        /\ \A m \in u..k : t[m] # "NL"

\* t without its dropped characters.
RECURSIVE KeptFrom(_, _)
KeptFrom(t, k) ==
    IF k > Len(t) THEN <<>>
    ELSE (IF Dropped(t, k) THEN <<>> ELSE <<t[k]>>) \o KeptFrom(t, k + 1)
WithoutUxLine(t) == KeptFrom(t, 1)

\* getTaskOutput has returned the record of the two numbers that follow the
\* first occurrence of each pattern in t, and the process has not exited.
ReturnedNumbersOf(t) ==
    /\ "getTaskOutput" \in returned
    /\ pc = "done"
    /\ \A k \in EventIdx : events[k].e # "exit"
    /\ output.kind = "record"
    /\ output.rate = parseFloat(NumberAfterFirst(t, "R"))
    /\ output.convertedAmount = parseFloat(NumberAfterFirst(t, "A"))

\* C6 as stated: when the download succeeds with a text that contains both
\* 'Uncertain conversion rate: <number>' and 'Converted Amount: <number>',
\* getTaskOutput has returned the record of the two numbers and the process
\* has not exited.
C6_AsStated ==
    \A i \in Responses(DOWNLOAD) :
        (/\ events[i].arg.ok
         /\ Contains(events[i].arg.data, "R")
         /\ Contains(events[i].arg.data, "A"))
        => ReturnedNumbersOf(events[i].arg.data)

\* C6 (amended): when the download succeeds with a text that still
\* contains both patterns once the first "Ux" and the rest of its line are
\* removed, getTaskOutput has returned the record of the numbers that
\* follow the first occurrence of each pattern in what is left, and the
\* process has not exited.
C6_ReturnsBothNumbers ==
    \A i \in Responses(DOWNLOAD) :
        events[i].arg.ok
        => LET rest == WithoutUxLine(events[i].arg.data)
           IN  Contains(rest, "R") /\ Contains(rest, "A") => ReturnedNumbersOf(rest)

C6_Witness ==
    /\ pc = "done"
    /\ \E i \in Responses(DOWNLOAD) :
          /\ events[i].arg.ok
          /\ events[i].arg.data = <<"R", "1", ".", "5", "7", "NL", "A", "2", ".", "5", "0">>
    /\ output.rate = [nan |-> FALSE, n |-> 157, d |-> 2]
    /\ output.convertedAmount = [nan |-> FALSE, n |-> 25, d |-> 1]

\* ------------------------------------------------------------- C7
\* C7: when the output metadata has no Stdout field, or an empty one, the
\* process has exited with status 1 and no download request was sent.
C7_MissingStdoutIsFatal ==
    \A i \in Responses(OUTPUTS) :
        (events[i].arg.ok /\ events[i].arg.data \in {Undefined, ""})
        => /\ FatalAfter(i, "No output found for the task.")
           /\ Requests(DOWNLOAD) = {}
           /\ "getTaskOutput" \notin returned

C7_Witness ==
    /\ pc = "exited"
    /\ \E i \in Responses(OUTPUTS) : events[i].arg.ok /\ events[i].arg.data = ""

\* ------------------------------------------------------------- C8
\* C8: when the downloaded text is empty or lacks one of the two patterns,
\* the process has exited with status 1 and no record was returned; and a
\* record, whenever there is one, holds both numbers.
C8_NoPartialExtraction ==
    /\ \A i \in Responses(DOWNLOAD) :
          (/\ events[i].arg.ok
           /\ \/ events[i].arg.data = <<>>
              \/ ~Contains(events[i].arg.data, "R")
              \/ ~Contains(events[i].arg.data, "A"))
          => /\ FatalAfter(i, "Failed to extract conversion rate or converted amount")
             /\ "getTaskOutput" \notin returned
             /\ output = NoOutput
    /\ output # NoOutput
       => /\ output.kind = "record"
          /\ ~output.rate.nan
          /\ ~output.convertedAmount.nan

C8_Witness ==
    /\ pc = "exited"
    /\ \E i \in Responses(DOWNLOAD) :
          /\ events[i].arg.ok
          /\ Contains(events[i].arg.data, "R")
          /\ ~Contains(events[i].arg.data, "A")

\* ------------------------------------------------------------- C9
\* The conversion request main hands to validateInput.
ValidRequest ==
    /\ ToUpperCase(options.source) # ToUpperCase(options.target)
    /\ ~options.rateMin.nan
    /\ ~options.rateMax.nan
    /\ ~options.amount.nan
    /\ 0 < options.rateMin.v
    /\ options.rateMin.v < options.rateMax.v
    /\ options.amount.v > 0

\* C9: once main has called validateInput, it has returned normally with no
\* effect exactly when source differs from target, 0 < rateMin < rateMax
\* and amount > 0, and for every other input the process has exited with
\* status 1.
C9_AsStated ==
    pc \notin {"load", "main"} /\ ~Falsy(apiKey)
    => /\ "validateInput" \in returned <=> ValidRequest
       /\ ~ValidRequest => pc = "exited" /\ exitCode = <<1>> /\ Requests(POST) = {}

\* ------------------------------------------------------------- C10
\* C10: the remote calls form a strict chain: at most one request is
\* unanswered at any time, every request is answered before the next one
\* is sent, the first status query follows the answer to the POST, the
\* output-metadata request follows a status answer of Completed, and the
\* download follows the answer to the output-metadata request.
C10_StrictChain ==
    /\ Cardinality(inflight) <= 1
    /\ \A j \in EventIdx :
          events[j].e = "req"
          => \A i \in 1..(j - 1) :
                 events[i].e = "req"
                 => \E k \in (i + 1)..(j - 1) : IsResp(k, events[i].what)
    /\ \A j \in Requests(STATUS) : \E k \in Responses(POST) : k < j
    /\ \A j \in Requests(OUTPUTS) :
          \E k \in Responses(STATUS) :
              k < j /\ events[k].arg.ok /\ events[k].arg.data = "Completed"
    /\ \A j \in Requests(DOWNLOAD) : \E k \in Responses(OUTPUTS) : k < j

C10_Witness ==
    /\ pc = "done"
    /\ Cardinality(Requests(STATUS)) = 3

\* ------------------------------------------------------------- C11
\* The process has ended with exit status 1, its last act before the exit
\* being a message on the error stream.
EndedWithDiagnostic ==
    /\ pc = "exited"
    /\ exitCode = <<1>>
    /\ Len(events) >= 2
    /\ IsExit(Len(events), 1)
    /\ events[Len(events) - 1].e = "log"
    /\ events[Len(events) - 1].what = "stderr"

\* A request of the run was answered with a failure.
SomeRequestFailed == \E i \in EventIdx : events[i].e = "resp" /\ ~events[i].arg.ok

\* A status query returned Cancelled or Stopped.
TaskAbandoned ==
    \E i \in Responses(STATUS) :
        events[i].arg.ok /\ events[i].arg.data \in {"Cancelled", "Stopped"}

\* The downloaded text, once its Ux line is cut, lacks one of the patterns.
OutputUnparseable ==
    \E i \in Responses(DOWNLOAD) :
        /\ events[i].arg.ok
        /\ LET rest == WithoutUxLine(events[i].arg.data)
           IN  ~Contains(rest, "R") \/ ~Contains(rest, "A")

\* The failures other than an invalid conversion request.
RemoteOrParseFailure ==
    \/ Falsy(apiKey) /\ pc # "load"
    \/ SomeRequestFailed
    \/ TaskAbandoned
    \/ OutputUnparseable

\* An invalid conversion request has gone through main's validation.
InvalidRequestSeen == ~Falsy(apiKey) /\ pc \notin {"load", "main"} /\ ~ValidRequest

\* C11: every failure class (missing API key, invalid input, failed request,
\* Cancelled or Stopped task, unparseable output) ends the process with exit
\* status 1 after a message on the error stream, and no exit carries another
\* status.
C11_AsStated ==
    /\ (RemoteOrParseFailure \/ InvalidRequestSeen) => EndedWithDiagnostic
    /\ pc = "exited" => EndedWithDiagnostic
    /\ \A i \in EventIdx : events[i].e = "exit" => events[i].arg = 1

\* ------------------------------------------------------------- C12
\* main's two result lines.
ConvertedLines == {i \in EventIdx : IsLog(i, "stdout", "Converted")}
RateLines == {i \in EventIdx : IsLog(i, "stdout", "Conversion Rate")}

\* C12: a conversion result line is printed only when the submission
\* succeeded, a Completed status was observed, the output metadata and the
\* download succeeded and both numbers were extracted, and then both lines
\* are printed; a run that ends in a failure has printed neither line.
C12_PrintsOnlyOnSuccess ==
    /\ (ConvertedLines \cup RateLines # {})
       => /\ \E i \in Responses(POST) : events[i].arg.ok
          /\ \E i \in Responses(STATUS) :
                events[i].arg.ok /\ events[i].arg.data = "Completed"
          /\ \E i \in Responses(OUTPUTS) :
                events[i].arg.ok /\ events[i].arg.data \notin {Undefined, ""}
          /\ \E i \in Responses(DOWNLOAD) :
                /\ events[i].arg.ok
                /\ Contains(WithoutUxLine(events[i].arg.data), "R")
                /\ Contains(WithoutUxLine(events[i].arg.data), "A")
                /\ ConvertedLines = {i + 1}
                /\ RateLines = {i + 2}
          /\ ~SomeRequestFailed
          /\ output.kind = "record"
          /\ ~output.rate.nan
          /\ ~output.convertedAmount.nan
          /\ pc = "done"
    /\ (pc = "exited" \/ RemoteOrParseFailure) => ConvertedLines \cup RateLines = {}

C12_Witness ==
    /\ pc = "done"
    /\ ConvertedLines # {}
    /\ RateLines # {}
    /\ Cardinality(Requests(STATUS)) = 2

\* ------------------------------------------------------------- C13
\* C13: when SIGNALOID_API_KEY is absent (unset or empty) as the API module
\* loads, the process has exited with status 1 at load time: the one
\* message of the check and the exit are all the process ever did, so no
\* request was sent; and the message is never logged in a run that has a
\* key, nor twice.
C13_MissingKeyIsFatalAtLoad ==
    LET msg == "Error: SIGNALOID_API_KEY environment variable not set."
        checks == {i \in EventIdx : IsLog(i, "stderr", msg)}
    IN  /\ (apiKey \in {Undefined, ""} /\ pc # "load")
           => /\ pc = "exited"
              /\ exitCode = <<1>>
              /\ Len(events) = 2
              /\ IsLog(1, "stderr", msg)
              /\ IsExit(2, 1)
              /\ \A i \in EventIdx : events[i].e # "req"
        /\ apiKey \notin {Undefined, ""} => checks = {}
        /\ Cardinality(checks) <= 1

C13_Witness ==
    /\ apiKey = ""
    /\ pc = "exited"
    /\ Len(events) = 2

\* ------------------------------------------------------------- C16
\* waitForTaskCompletion has ended (by returning or by ending the process).
PollerEnded ==
    \/ "waitForTaskCompletion" \in returned
    \/ pc = "exited" /\ Requests(STATUS) # {}

\* C16: under fairness of the loop, once the remote task is in a terminal
\* status (which it keeps) while the poller runs with a query pending or
\* still to send, the poller eventually ends, by returning or by exiting;
\* and the poller never ends unless a status query failed or returned a
\* terminal status.
C16_EndsIffTerminalReported ==
    /\ (/\ remote \in TerminalStatuses
        /\ pc = "awaitStatus" \/ (pc = "sleep" /\ StatusQueries < MaxPolls))
       ~> PollerEnded
    /\ [](PollerEnded
          => \E i \in Responses(STATUS) :
                 \/ ~events[i].arg.ok
                 \/ events[i].arg.data \in TerminalStatuses)

\* The task became Stopped after a first status of InProgress was
\* reported, and the second query ended the poller.
C16_Witness ==
    /\ Len(StatusReplies) = 2
    /\ StatusReplies[1].arg.ok /\ StatusReplies[1].arg.data = "InProgress"
    /\ StatusReplies[2].arg.ok /\ StatusReplies[2].arg.data = "Stopped"
    /\ remote = "Stopped"
    /\ PollerEnded

\* ------------------------------------------------------------- C15
\* C15: as long as every status query so far succeeded with a value other
\* than Completed, Cancelled and Stopped (a missing Status included), the
\* poller has neither returned nor ended the process: every reply was
\* followed by the log of the status and by the wait, every wait that is
\* over by the next status query, and the loop is either waiting for a
\* reply or for its timer, which is then free to fire at whatever number
\* of queries made so far.
C15_KeepsPolling ==
    (/\ Requests(STATUS) # {}
     /\ \A i \in Responses(STATUS) :
            events[i].arg.ok /\ events[i].arg.data \notin TerminalStatuses)
    => /\ "waitForTaskCompletion" \notin returned
       /\ pc \in {"awaitStatus", "sleep"}
       /\ exitCode = <<>>
       /\ \A i \in EventIdx : events[i].e # "exit"
       /\ \A i \in Responses(STATUS) :
              /\ IsLog(i + 1, "stdout", "Task status")
              /\ i + 2 \in EventIdx /\ events[i + 2] = Wait(PollIntervalMs)
              /\ i + 2 < Len(events) => i + 3 \in Requests(STATUS)
              /\ i + 2 = Len(events) => pc = "sleep"
       /\ StatusQueries = Cardinality(Responses(STATUS)) + (IF pc = "awaitStatus" THEN 1 ELSE 0)
       /\ (pc = "sleep" /\ StatusQueries < MaxPolls) => ENABLED TimerFires

\* Every query the bound allows was answered, none with a terminal status,
\* one with no Status at all, and the poller still waits.
C15_Witness ==
    /\ Len(StatusReplies) = MaxPolls
    /\ \A k \in 1..MaxPolls :
           StatusReplies[k].arg.ok /\ StatusReplies[k].arg.data \notin TerminalStatuses
    /\ \E k \in 1..MaxPolls : StatusReplies[k].arg.data = Undefined
    /\ pc = "sleep"

\* ------------------------------------------------------------- C17
\* The text before the first "Ux" of t (t itself when it has none).
BeforeFirstUx(t) ==
    LET us == {i \in 1..Len(t) : t[i] = "Ux"}
    IN  IF us = {} THEN t ELSE SubSeq(t, 1, SetMin(us) - 1)

ParseFatalAfter(i) ==
    /\ FatalAfter(i, "Failed to extract conversion rate or converted amount")
    /\ output = NoOutput
    /\ "getTaskOutput" \notin returned

\* C17 as stated: the extractor works on the text before the first "Ux"
\* only: a pattern that does not occur there is a fatal parse error, and
\* the numbers returned are the ones found there.
C17_AsStated ==
    \A i \in Responses(DOWNLOAD) :
        events[i].arg.ok
        => LET head == BeforeFirstUx(events[i].arg.data)
           IN  IF Contains(head, "R") /\ Contains(head, "A")
               THEN ReturnedNumbersOf(head)
               ELSE ParseFatalAfter(i)

\* C17 (amended): the extractor discards the text from the first "Ux" to
\* the end of that line and keeps the later lines: a pattern that occurs
\* nowhere in what is left (even if it occurs in the discarded part) is a
\* fatal parse error, and the numbers returned are the ones found in what
\* is left, later lines included.
C17_DiscardsUxToEndOfLine ==
    \A i \in Responses(DOWNLOAD) :
        events[i].arg.ok
        => LET rest == WithoutUxLine(events[i].arg.data)
           IN  IF Contains(rest, "R") /\ Contains(rest, "A")
               THEN ReturnedNumbersOf(rest)
               ELSE ParseFatalAfter(i)

\* The amount stands on the line after the one that holds the first "Ux",
\* and is returned.
C17_Witness ==
    /\ pc = "done"
    /\ \E i \in Responses(DOWNLOAD) :
          /\ events[i].arg.ok
          /\ events[i].arg.data = <<"R", "1", ".", "5", "Ux", "NL", "A", "2", ".", "5", "0">>
    /\ output.rate = [nan |-> FALSE, n |-> 15, d |-> 1]
    /\ output.convertedAmount = [nan |-> FALSE, n |-> 25, d |-> 1]

\* ------------------------------------------------------------- C18
\* The requests sent so far, and the ones that only read (axios.get).
AllRequests == {i \in EventIdx : events[i].e = "req"}
ReadRequests == Requests(STATUS) \cup Requests(OUTPUTS) \cup Requests(DOWNLOAD)

\* C18: at most one POST /tasks is sent, it is the first request of the
\* run, and every other request is one of the three reads, whatever was
\* answered to the requests before it.
C18_OnePostThenReads ==
    /\ Cardinality(Requests(POST)) <= 1
    /\ AllRequests = Requests(POST) \cup ReadRequests
    /\ Requests(POST) \cap ReadRequests = {}
    /\ \A i \in Requests(POST) : \A j \in AllRequests : i <= j
    /\ ReadRequests # {} => Requests(POST) # {}

\* An abandoned task after two status queries: one POST and reads only.
C18_Witness ==
    /\ Cardinality(Requests(POST)) = 1
    /\ Cardinality(Requests(STATUS)) = 2
    /\ \E i \in Responses(STATUS) : events[i].arg.ok /\ events[i].arg.data = "Cancelled"
    /\ pc = "exited"

\* ------------------------------------------------------------- C19
\* The waits performed so far.
Waits == {i \in EventIdx : events[i].e = "wait"}

\* C19: every wait is one of 2000 ms; none precedes the first status
\* query; between two consecutive status queries there is exactly one; and
\* after the last status query there is at most one, and none once a query
\* has failed or returned Completed, Cancelled or Stopped.
C19_OneFixedWaitBetweenQueries ==
    /\ \A w \in Waits : events[w].arg = 2000 /\ events[w].what = "setTimeout"
    /\ \A w \in Waits : \E q \in Requests(STATUS) : q < w
    /\ \A q1, q2 \in Requests(STATUS) :
           (q1 < q2 /\ \A q \in Requests(STATUS) : ~(q1 < q /\ q < q2))
           => Cardinality({w \in Waits : q1 < w /\ w < q2}) = 1
    /\ \A q \in Requests(STATUS) :
           q = SetMax(Requests(STATUS))
           => Cardinality({w \in Waits : q < w}) = (IF pc = "sleep" THEN 1 ELSE 0)
    /\ \A i \in Responses(STATUS) :
           (~events[i].arg.ok \/ events[i].arg.data \in {"Completed", "Cancelled", "Stopped"})
           => \A w \in Waits : w < i
    /\ Cardinality(Waits) = Cardinality({i \in Responses(STATUS) :
                                events[i].arg.ok
                                /\ events[i].arg.data \notin {"Completed", "Cancelled", "Stopped"}})

\* Three status queries with a wait between each two, the last one
\* answered Completed.
C19_Witness ==
    /\ Cardinality(Requests(STATUS)) = 3
    /\ Cardinality(Waits) = 2
    /\ Len(StatusReplies) = 3
    /\ StatusReplies[3].arg.ok /\ StatusReplies[3].arg.data = "Completed"

\* ------------------------------------------------------------- C20
\* C20 as stated: validation is over before any remote request: a request
\* is sent only after validateInput has returned, on a valid conversion
\* request; and once main has run on a request that violates source #
\* target, 0 < rateMin < rateMax or amount > 0, the process has exited with
\* status 1 and has sent no POST, no status query and no output request.
C20_AsStated ==
    /\ AllRequests # {} => "validateInput" \in returned /\ ValidRequest
    /\ (~Falsy(apiKey) /\ pc \notin {"load", "main"} /\ ~ValidRequest)
       => /\ pc = "exited"
          /\ exitCode = <<1>>
          /\ IsExit(Len(events), 1)
          /\ AllRequests = {}

\* ------------------------------------------------------------- C14
Stages == <<"submitTask", "waitForTaskCompletion", "getTaskOutput">>

\* C14: when a stage of executeTask rejects with an error, executeTask has
\* rejected with that same error right away and no later stage was called:
\* after a rejected submitTask neither waitForTaskCompletion nor
\* getTaskOutput was called, after a rejected waitForTaskCompletion
\* getTaskOutput was not; and a stage is called only after the stage before
\* it has resolved.
C14_FailureStopsExecuteTask ==
    /\ \A k \in 1..3 : \A i \in Responses(Stages[k]) :
           ~events[i].arg.ok
           => /\ pc = "execRejected"
              /\ Len(events) = i + 1
              /\ events[i + 1] = Resp("executeTask", Rejected(events[i].arg.data))
              /\ \A m \in (k + 1)..3 : Requests(Stages[m]) = {}
              /\ "executeTask" \notin returned
    /\ \A k \in 2..3 : \A j \in Requests(Stages[k]) :
           \E i \in Responses(Stages[k - 1]) : i < j /\ events[i].arg.ok
    /\ \A k \in 1..3 : Cardinality(Requests(Stages[k])) <= 1

\* The test of part_001: submitTask rejects with 'API Error'.
C14_Witness ==
    /\ pc = "execRejected"
    /\ Len(events) = 3
    /\ events[2] = Resp("submitTask", Rejected("API Error"))
    /\ events[3] = Resp("executeTask", Rejected("API Error"))

\* ------------------------------------------------------------- C21
\* A query result that ends the poller: a failed query, or a status of
\* Completed, Cancelled or Stopped.
EndsPolling(reply) == ~reply.arg.ok \/ reply.arg.data \in {"Completed", "Cancelled", "Stopped"}

\* C21: when the results of the status queries so far hold one that ends
\* the poller, it is the last one: the number of status queries sent is its
\* position, no query was sent and no result read after it, and it alone
\* decides the outcome: Completed makes the poller return (the process goes
\* on, with no exit next), a failure or Cancelled or Stopped makes the
\* process exit with status 1 right after it.  As long as there is none,
\* the poller has neither returned nor exited.
C21_StopsAtFirstTerminal ==
    LET replies == StatusReplies
        ends == {k \in 1..Len(replies) : EndsPolling(replies[k])}
    IN  /\ ends # {}
           => LET f == SetMin(ends)
                  i == SetMax(Responses(STATUS))
              IN  /\ Len(replies) = f
                  /\ StatusQueries = f
                  /\ \A q \in Requests(STATUS) : q < i
                  /\ events[i] = replies[f]
                  /\ IF replies[f].arg.ok /\ replies[f].arg.data = "Completed"
                     THEN /\ "waitForTaskCompletion" \in returned
                          /\ IsLog(i + 1, "stdout", "Task status")
                          /\ i + 2 \in Requests(OUTPUTS)
                     ELSE /\ "waitForTaskCompletion" \notin returned
                          /\ pc = "exited"
                          /\ exitCode = <<1>>
                          /\ Len(events) = i + 2
                          /\ events[i + 1].e = "log" /\ events[i + 1].what = "stderr"
                          /\ IsExit(i + 2, 1)
        /\ (ends = {} /\ Requests(STATUS) # {})
           => /\ "waitForTaskCompletion" \notin returned
              /\ pc \in {"awaitStatus", "sleep"}
              /\ StatusQueries \in {Len(replies), Len(replies) + 1}

\* Two statuses that do not end the poller, then Cancelled at the third
\* query.
C21_Witness ==
    /\ Len(StatusReplies) = 3
    /\ StatusReplies[1].arg.ok /\ StatusReplies[1].arg.data = "InProgress"
    /\ StatusReplies[2].arg.ok /\ StatusReplies[2].arg.data = Undefined
    /\ StatusReplies[3].arg.ok /\ StatusReplies[3].arg.data = "Cancelled"
    /\ StatusQueries = 3
    /\ pc = "exited"

\* ------------------------------------------------------------- C22
\* C22: when the POST is answered with a success that carries no TaskID,
\* that is no failure: submitTask has logged its confirmation line and
\* returned undefined, nothing was written to the error stream and the
\* process did not exit there, and the first status query was sent next,
\* for the identifier "undefined"; every later status query and output
\* request carries it too.
C22_MissingTaskIdIsPolled ==
    \A i \in Responses(POST) :
        (events[i].arg.ok /\ events[i].arg.data = Undefined)
        => /\ "submitTask" \in returned
           /\ taskId = Undefined
           /\ IsLog(i + 1, "stdout", "Task submitted. Task ID")
           /\ i + 2 \in Requests(STATUS)
           /\ events[i + 2].arg = "undefined"
           /\ i + 2 = SetMin(AllRequests \ Requests(POST))
           /\ \A j \in Requests(STATUS) \cup Requests(OUTPUTS) : events[j].arg = "undefined"
           /\ ~FatalAfter(i, "Error submitting task")

\* The task without identifier was polled twice and its output asked for.
C22_Witness ==
    /\ \E i \in Responses(POST) : events[i].arg.ok /\ events[i].arg.data = Undefined
    /\ taskId = Undefined
    /\ Cardinality(Requests(STATUS)) = 2
    /\ \E j \in Requests(OUTPUTS) : events[j].arg = "undefined"

====
